---- MODULE Spec2Model ----
(***************************************************************************)
(* Risk-sized order entry, deferred execution and break-even monitoring of *)
(* the trading front end: TradeEntry.handleSubmit, BatchTrading.           *)
(* handleExecuteTrades / executeTrades, ScheduledTrades.loadScheduledTrades*)
(* / cancelTrade, and the break-even polling intervals.                    *)
(*                                                                         *)
(* Prices are integers in points of 0.00001 (the five decimals the broker  *)
(* quotes and toFixed(5) keeps); one pip (0.0001) is PipPoints points.     *)
(* Clock values are abstract instants: the handlers only compare them and  *)
(* use Date.now() as a storage key, so only their order and equality count.*)
(***************************************************************************)
EXTENDS Integers, Sequences, FiniteSets, TLC

\* ---------------------------------------------------------------- bounds
MaxTime    == 2   \* clock instants 0..MaxTime
MaxTasks   == 2   \* schedule operations that arm a timer
MaxOrders  == 2   \* createOrder calls of immediate single submissions
MaxRuns    == 1   \* immediate executeTrades invocations
MaxBatch   == 2   \* intents in one batch
MaxPolls   == 2   \* break-even poll callbacks started
MaxReloads == 1   \* page reloads

\* ------------------------------------------------------ program constants
PipPoints              == 10      \* pipValue = 0.0001, in points
PipValuePerStandardLot == 10
LotUnits               == 100000

\* ------------------------------------------------------------ input sets
Instruments   == {"EUR_USD", "GBP_USD"}
Directions    == {"LONG", "SHORT"}
RiskAmounts   == {10}
StopLosses    == {25}
TakeProfits   == {50}
BreakEvenPips == {15}

Quotes == {[bid |-> 110000, ask |-> 110015], [bid |-> 110040, ask |-> 110065]}
NoQuote == [bid |-> 0, ask |-> 0]

Intents ==
  [instrument : Instruments, direction : Directions, riskAmount : RiskAmounts,
   stopLoss : StopLosses, takeProfit : TakeProfits,
   moveToBreakEven : BOOLEAN, breakEvenPips : BreakEvenPips]

\* the trades array of the batch form: 1..MaxBatch intents
Batches == UNION {[1..n -> Intents] : n \in 1..MaxBatch}

\* the prices map of the batch form: instrument -> quote, or no entry
PriceMaps == [Instruments -> Quotes \cup {NoQuote}]

\* ------------------------------------------------------- pure functions
\* the sizing with the spread taken off the stop distance instead of added
calculatePositionSizeSpreadCredited(riskAmount, stopLoss, q) ==
  (riskAmount * PipPoints * LotUnits)
     \div ((stopLoss * PipPoints - (q.ask - q.bid)) * PipValuePerStandardLot)

\* TradeEntry.calculatePositionSize / TradeForm.calculatePositionSize:
\*   spread = (ask - bid) / pipValue; totalStopDistance = stopLoss + spread;
\*   units = floor(riskAmount / totalStopDistance / 10 * 100000)
\* in exact arithmetic (on the input sets used here the IEEE-754 result of
\* the source expression is the same integer).
calculatePositionSize(riskAmount, stopLoss, q) ==
  (riskAmount * PipPoints * LotUnits)
     \div ((stopLoss * PipPoints + (q.ask - q.bid)) * PipValuePerStandardLot)

\* executeTrades: riskPerPip = riskAmount / stopLoss;
\*   units = floor(riskPerPip / 10 * 100000)
batchUnits(riskAmount, stopLoss) ==
  (riskAmount * LotUnits) \div (stopLoss * PipValuePerStandardLot)

isLong(intent) == intent.direction = "LONG"

entryPrice(intent, q) == IF isLong(intent) THEN q.ask ELSE q.bid

stopLossPrice(intent, q) ==
  IF isLong(intent) THEN entryPrice(intent, q) - intent.stopLoss * PipPoints
                    ELSE entryPrice(intent, q) + intent.stopLoss * PipPoints

takeProfitPrice(intent, q) ==
  IF isLong(intent) THEN entryPrice(intent, q) + intent.takeProfit * PipPoints
                    ELSE entryPrice(intent, q) - intent.takeProfit * PipPoints

\* the order object without the sign change for a short trade
orderPayloadUnsigned(intent, q, units) ==
  [instrument      |-> intent.instrument,
   units           |-> units,
   stopLossPrice   |-> stopLossPrice(intent, q),
   takeProfitPrice |-> takeProfitPrice(intent, q),
   intent          |-> intent,
   quote           |-> q]

\* the order object handed to api.createOrder, with the intent and the quote
\* it was built from
orderPayload(intent, q, units) ==
  [instrument      |-> intent.instrument,
   units           |-> IF isLong(intent) THEN units ELSE -units,
   stopLossPrice   |-> stopLossPrice(intent, q),
   takeProfitPrice |-> takeProfitPrice(intent, q),
   intent          |-> intent,
   quote           |-> q]

\* ------------------------------------------------------------------ state
VARIABLES
  now,          \* Date.now() / new Date()
  loads,        \* page loads so far; timers and closures die with their page
  route,        \* the Dashboard route that is mounted
  crashed,      \* the React root was unmounted by an error thrown in render
  nextHandle,   \* next timer handle of this window
  timers,       \* live setTimeout / setInterval handles of this window
  storage,      \* localStorage entries written by the schedulers
  tasks,        \* closures of the scheduled timers, in creation order
  orders,       \* api.createOrder calls, in call order
  runs,         \* executeTrades invocations (the Promise.allSettled array)
  monitors,     \* break-even intervals
  polls,        \* break-even interval callbacks, in start order
  rows,         \* scheduledTrades state of ScheduledTrades, as rendered
  busy,         \* isSubmitting / isExecuting of the mounted form
  notice,       \* last setError / setSuccess of each component
  credentials,  \* useAuthStore: credentials are set (persisted)
  selected,     \* form.instrument of TradeEntry
  shownPrice,   \* currentPrice state of TradeEntry
  fetches,      \* instruments of the fetchCurrentPrice calls in flight
  batchForm     \* trades state of BatchTrading

vars == <<now, loads, route, crashed, nextHandle, timers, storage, tasks,
          orders, runs, monitors, polls, rows, busy, notice, credentials,
          selected, shownPrice, fetches, batchForm>>

clockVars  == <<now, loads, route, crashed>>
timerVars  == <<nextHandle, timers>>
brokerVars == <<orders, runs, monitors, polls>>
entryVars  == <<selected, shownPrice, fetches>>
formVars   == <<credentials, selected, shownPrice, fetches, batchForm>>

\* TRADING_PAIRS[0], the instrument of a fresh form
DefaultInstrument == "EUR_USD"

\* the trades a freshly mounted batch form holds: the first half long, the
\* second half short, all on the default instrument
initialTrades ==
  [index \in 1..MaxBatch |->
     [instrument |-> DefaultInstrument,
      direction |-> IF 2 * (index - 1) < MaxBatch THEN "LONG" ELSE "SHORT",
      riskAmount |-> 1, stopLoss |-> 25, takeProfit |-> 50,
      moveToBreakEven |-> FALSE, breakEvenPips |-> 15]]

Routes == {"trade", "batch", "scheduled"}

Init ==
  /\ now = 0
  /\ loads = 0
  /\ route \in Routes
  /\ crashed = FALSE
  /\ nextHandle = 1
  /\ timers = {}
  /\ storage = {}
  /\ tasks = <<>>
  /\ orders = <<>>
  /\ runs = <<>>
  /\ monitors = <<>>
  /\ polls = <<>>
  /\ rows = {}
  /\ busy = FALSE
  /\ notice = [r \in Routes |-> "none"]
  /\ credentials = TRUE
  /\ selected = DefaultInstrument
  /\ shownPrice = NoQuote
  /\ fetches = {}
  /\ batchForm = initialTrades

\* setTimeout / setInterval: the handle returned and the timer table after it
armTimer(kind, ref) ==
  [h |-> nextHandle, kind |-> kind, ref |-> ref, load |-> loads]

\* clearTimeout / clearInterval left out
clearTimerSkipped(ts, h) == ts

\* clearTimeout(h) / clearInterval(h): one id space, whatever h names is gone
clearTimer(ts, h) == {t \in ts : t.h # h}

\* localStorage.setItem(key, JSON.stringify(value))
setItem(st, key, value) ==
  {e \in st : e.key # key} \cup {[key |-> key] @@ value}

\* localStorage.removeItem(key)
removeItem(st, key) == {e \in st : e.key # key}

\* ------------------------------------------------ executeTrades (batch)
\* a loop that gives up at the first trade without a price
quotedUntilFirstMiss(trades, prices) ==
  {i \in 1..Len(trades) :
     \A j \in 1..i : prices[trades[j].instrument] # NoQuote}

\* indices of the trades for which prices[trade.instrument] exists
quoted(trades, prices) ==
  {i \in 1..Len(trades) : prices[trades[i].instrument] # NoQuote}

\* Date.now() of the schedule call that created the task: the instant its
\* closure captured orderPayload / trades / prices
scheduledAt(task) == task.key[2]

\* position of trade i among the quoted ones = offset of its createOrder call
rank(S, i) == Cardinality({j \in S : j <= i})

\* the createOrder calls made by the synchronous part of trades.map(...)
batchOrders(trades, prices, run, task) ==
  LET S == quoted(trades, prices)
  IN  [k \in 1..Cardinality(S) |->
         LET i == CHOOSE j \in S : rank(S, j) = k
             t == trades[i]
             q == prices[t.instrument]
         IN  [payload |-> orderPayload(t, q, batchUnits(t.riskAmount, t.stopLoss)),
              mode |-> "batch", task |-> task, run |-> run, idx |-> i,
              load |-> loads, state |-> "sent", mounted |-> (task = 0),
              quotedAt |-> IF task = 0 THEN now ELSE scheduledAt(tasks[task]),
              sentAt |-> now]]

\* the promise of each trade right after the synchronous part: a missing
\* price has thrown, every other trade awaits its createOrder response
initialOutcome(trades, prices) ==
  [i \in 1..Len(trades) |->
     IF i \in quoted(trades, prices) THEN "pending" ELSE "rejected"]

\* results.filter(r => r.status === ...).length
countOf(outcome, status) ==
  Cardinality({i \in 1..Len(outcome) : outcome[i] = status})

\* the tail of executeTrades, run once every promise has settled
report(outcome) ==
  IF \E i \in 1..Len(outcome) : outcome[i] = "pending"
    THEN [done |-> FALSE, successful |-> 0, failed |-> 0]
    ELSE [done |-> TRUE, successful |-> countOf(outcome, "fulfilled"),
          failed |-> countOf(outcome, "rejected")]

reportNotice(rep, old) ==
  IF ~rep.done THEN old
  ELSE IF rep.failed = 0 THEN "executed" ELSE "someFailed"

\* executeTrades() up to its first suspension, as the changes it makes
executeTrades(trades, prices, task) ==
  LET run == Len(runs) + 1
      out == initialOutcome(trades, prices)
  IN  /\ orders' = orders \o batchOrders(trades, prices, run, task)
      /\ runs' = Append(runs, [task |-> task, load |-> loads, trades |-> trades,
                               prices |-> prices, outcome |-> out,
                               report |-> report(out)])

\* ------------------------------------------------------------- the clock
Tick ==
  /\ now < MaxTime
  /\ now' = now + 1
  /\ UNCHANGED <<loads, route, crashed, timerVars, storage, tasks, brokerVars,
                 rows, busy, notice, formVars>>

\* the component instance that issued an immediate submission is unmounted:
\* its later setState calls do nothing
unmount(os) == [o \in 1..Len(os) |-> [os[o] EXCEPT !.mounted = FALSE]]

\* the state of the forms after a mount: useState initial values, no price
\* yet, and no response of an earlier instance is listened to
freshForms ==
  /\ selected' = DefaultInstrument
  /\ shownPrice' = NoQuote
  /\ fetches' = {}
  /\ batchForm' = initialTrades

\* Dashboard <Routes>: the user opens another page of the dashboard
Navigate(r) ==
  /\ ~crashed /\ credentials
  /\ r # route
  /\ route' = r
  /\ rows' = {}
  /\ busy' = FALSE
  /\ orders' = unmount(orders)
  /\ freshForms
  /\ UNCHANGED <<now, loads, crashed, timerVars, storage, tasks, runs,
                 monitors, polls, notice, credentials>>

\* Dashboard.handleLogout: clearCredentials() and navigate('/login'); the
\* dashboard and its forms unmount, and nothing else is touched
handleLogout ==
  /\ ~crashed /\ credentials
  /\ credentials' = FALSE
  /\ rows' = {}
  /\ busy' = FALSE
  /\ orders' = unmount(orders)
  /\ freshForms
  /\ UNCHANGED <<clockVars, timerVars, storage, tasks, runs, monitors, polls,
                 notice>>

\* the page is reloaded: timers, closures and component state are gone,
\* localStorage stays; nothing in the application runs on start
Reload ==
  /\ loads < MaxReloads
  /\ loads' = loads + 1
  /\ crashed' = FALSE
  /\ nextHandle' = 1
  /\ timers' = {}
  /\ rows' = {}
  /\ busy' = FALSE
  /\ orders' = unmount(orders)
  /\ notice' = [r \in Routes |-> "none"]
  /\ freshForms
  /\ UNCHANGED <<now, route, storage, tasks, runs, monitors, polls,
                 credentials>>

\* ------------------------------------------------------------ scheduling
NoOrder == [instrument |-> "", units |-> 0, stopLossPrice |-> 0,
            takeProfitPrice |-> 0, intent |-> <<>>, quote |-> NoQuote]

\* the scheduling check with < in place of <=
tooEarlyStrict(scheduledTime, t) == scheduledTime < t

\* the scheduling check of handleSubmit / handleExecuteTrades
tooEarly(scheduledTime, t) == scheduledTime <= t

\* the branch `if (scheduled)` of both handlers after the check passed:
\* setTimeout first, then localStorage.setItem under a Date.now() key; a
\* setItem that throws (quota) leaves the timer armed
schedule(kind, prefix, scheduledTime, order, trades, prices, stored) ==
  LET id  == Len(tasks) + 1
      key == <<prefix, now>>
  IN  /\ Len(tasks) < MaxTasks
      /\ timers' = timers \cup {armTimer("timeout", id)}
      /\ nextHandle' = nextHandle + 1
      /\ tasks' = Append(tasks,
            [kind |-> kind, fireAt |-> scheduledTime, h |-> nextHandle,
             load |-> loads, key |-> key, order |-> order, trades |-> trades,
             prices |-> prices, fired |-> FALSE, cancel |-> "none"])
      /\ storage' = IF stored
                      THEN setItem(storage, key,
                             [timeoutId |-> nextHandle,
                              scheduledTime |-> scheduledTime,
                              field |-> IF kind = "batch" THEN "trades"
                                        ELSE "trade",
                              payload |-> IF kind = "batch" THEN trades
                                          ELSE <<order.intent>>,
                              task |-> id])
                      ELSE storage

\* the constraint validation the browser runs on the number inputs of the
\* <form onSubmit={handleSubmit}> before it dispatches the submit event:
\* min="0.01" (here: whole currency units, so at least 1) on the risk amount,
\* min="1" on stop loss and take profit, and on breakEvenPips when its input
\* is rendered.  The min of the datetime-local input is the minute of the last
\* render, which a time in the current minute passes, so the scheduled time
\* is left to the handler's own check.
checkValidity(form) ==
  /\ form.riskAmount >= 1
  /\ form.stopLoss >= 1
  /\ form.takeProfit >= 1
  /\ form.moveToBreakEven => form.breakEvenPips >= 1

\* setForm({instrument: TRADING_PAIRS[0], ...}) after a successful trade; a
\* changed form.instrument re-runs the price effect, which fetches at once
resetForm ==
  /\ selected' = DefaultInstrument
  /\ fetches' = IF selected # DefaultInstrument
                  THEN fetches \cup {DefaultInstrument} ELSE fetches
  /\ UNCHANGED <<credentials, shownPrice, batchForm>>

\* TradeEntry.handleSubmit with the form, the polled currentPrice and the
\* calculatedUnits the sizing effect derived from them; the submit button is
\* disabled while calculatedUnits is 0, and a form that fails validation gets
\* the browser's message instead of a submit event
handleSubmit(form, scheduled, scheduledTime, currentPrice, stored) ==
  LET calculatedUnits ==
        calculatePositionSize(form.riskAmount, form.stopLoss, currentPrice)
      payload == orderPayload(form, currentPrice, calculatedUnits)
  IN
  /\ route = "trade" /\ ~crashed /\ ~busy /\ credentials
  /\ calculatedUnits # 0
  /\ CASE ~checkValidity(form) ->
            /\ notice' = [notice EXCEPT !["trade"] = "invalidField"]
            /\ UNCHANGED <<timerVars, storage, tasks, orders, busy, formVars>>
       [] checkValidity(form) /\ scheduled ->
            IF tooEarly(scheduledTime, now)
              THEN /\ notice' = [notice EXCEPT !["trade"] = "SchedulingError"]
                   /\ UNCHANGED <<timerVars, storage, tasks, orders, busy,
                                  formVars>>
              ELSE /\ schedule("single", "scheduled_trade_", scheduledTime,
                               payload, <<>>, [i \in Instruments |-> NoQuote],
                               stored)
                   /\ notice' = [notice EXCEPT !["trade"] =
                                   IF stored THEN "scheduled" ELSE "failed"]
                   /\ IF stored THEN resetForm ELSE UNCHANGED formVars
                   /\ UNCHANGED <<orders, busy>>
       [] OTHER ->
            /\ Cardinality({o \in 1..Len(orders) : orders[o].mode = "single"})
                 < MaxOrders
            /\ orders' = Append(orders,
                 [payload |-> payload, mode |-> "single", task |-> 0,
                  run |-> 0, idx |-> 1, load |-> loads, state |-> "sent",
                  mounted |-> TRUE, quotedAt |-> now, sentAt |-> now])
            /\ busy' = TRUE
            /\ notice' = [notice EXCEPT !["trade"] = "none"]
            /\ UNCHANGED <<timerVars, storage, tasks, formVars>>
  /\ UNCHANGED <<clockVars, runs, monitors, polls, rows>>

\* validateTrades without the riskAmount test
validateTradesStopOnly(trades) ==
  \A i \in 1..Len(trades) :
     /\ trades[i].instrument # ""
     /\ trades[i].stopLoss > 0
     /\ trades[i].takeProfit > 0

\* BatchTrading.validateTrades
validateTrades(trades) ==
  \A i \in 1..Len(trades) :
     /\ trades[i].instrument # ""
     /\ trades[i].riskAmount > 0
     /\ trades[i].stopLoss > 0
     /\ trades[i].takeProfit > 0

\* BatchTrading.handleExecuteTrades with the trades and prices of the form
handleExecuteTrades(trades, prices, isScheduled, scheduledTime, stored) ==
  /\ route = "batch" /\ ~crashed /\ ~busy /\ credentials
  /\ CASE ~validateTrades(trades) ->
            /\ notice' = [notice EXCEPT !["batch"] = "invalid"]
            /\ UNCHANGED <<timerVars, storage, tasks, orders, runs, busy>>
       [] validateTrades(trades) /\ isScheduled ->
            IF tooEarly(scheduledTime, now)
              THEN /\ notice' = [notice EXCEPT !["batch"] = "SchedulingError"]
                   /\ UNCHANGED <<timerVars, storage, tasks, orders, runs, busy>>
              ELSE /\ schedule("batch", "batch_trades_", scheduledTime,
                               NoOrder, trades, prices, stored)
                   /\ notice' = [notice EXCEPT !["batch"] =
                                   IF stored THEN "scheduled" ELSE "failed"]
                   /\ UNCHANGED <<orders, runs, busy>>
       [] OTHER ->
            /\ Cardinality({r \in 1..Len(runs) : runs[r].task = 0}) < MaxRuns
            /\ executeTrades(trades, prices, 0)
            /\ busy' = (quoted(trades, prices) # {})
            /\ notice' = [notice EXCEPT !["batch"] = "none"]
            /\ UNCHANGED <<timerVars, storage, tasks>>
  /\ UNCHANGED <<clockVars, monitors, polls, rows, formVars>>

\* ------------------------------------------------ edits of the batch form
\* BatchTrading.handleTradeChange: a new array with one trade replaced
handleTradeChange(index, updatedTrade) ==
  /\ route = "batch" /\ ~crashed /\ credentials
  /\ index \in 1..Len(batchForm)
  /\ updatedTrade # batchForm[index]
  /\ batchForm' = [batchForm EXCEPT ![index] = updatedTrade]
  /\ UNCHANGED <<clockVars, timerVars, storage, tasks, brokerVars, rows, busy,
                 notice, credentials, entryVars>>

\* BatchTrading.handleDeleteTrade: a new array without one trade
handleDeleteTrade(index) ==
  /\ route = "batch" /\ ~crashed /\ credentials
  /\ index \in 1..Len(batchForm)
  /\ batchForm' = [i \in 1..(Len(batchForm) - 1) |->
                     IF i < index THEN batchForm[i] ELSE batchForm[i + 1]]
  /\ UNCHANGED <<clockVars, timerVars, storage, tasks, brokerVars, rows, busy,
                 notice, credentials, entryVars>>

\* ---------------------------------------------------------------- firing
\* the trades the callback sees when it reads the form as it is now
closureTradesOfForm(t) == batchForm

\* the `trades` the executeTrades closure of task t refers to: the array of
\* the render in which the task was scheduled
closureTrades(t) == tasks[t].trades

\* the setTimeout callback of task t runs: a timer never runs before its
\* delay (scheduledTime - now at schedule time) has elapsed
fireTimer(t) ==
  /\ \E tm \in timers : tm.kind = "timeout" /\ tm.ref = t
  /\ now >= tasks[t].fireAt
  /\ timers' = {tm \in timers : ~(tm.kind = "timeout" /\ tm.ref = t)}
  /\ tasks' = [tasks EXCEPT ![t].fired = TRUE]
  /\ IF tasks[t].kind = "single"
       THEN /\ orders' = Append(orders,
                 [payload |-> tasks[t].order, mode |-> "scheduledSingle",
                  task |-> t, run |-> 0, idx |-> 1, load |-> loads,
                  state |-> "sent", mounted |-> FALSE,
                  quotedAt |-> scheduledAt(tasks[t]), sentAt |-> now])
            /\ UNCHANGED runs
       ELSE executeTrades(closureTrades(t), tasks[t].prices, t)
  /\ UNCHANGED <<clockVars, nextHandle, storage, monitors, polls, rows, busy,
                 notice, formVars>>

\* ------------------------------------------------------ broker responses
\* what api.createOrder can come back with: it throws, or returns a body
\* with or without orderFillTransaction, whose tradeOpened may be absent
Responses == {"error", "noFill", "fillOpened", "fillNoTrade"}

\* `if (moveToBreakEven && response.orderFillTransaction)` and the read of
\* response.orderFillTransaction.tradeOpened.tradeID under it
startsMonitor(moveToBreakEven, resp) == moveToBreakEven /\ resp = "fillOpened"
throwsOnTradeId(moveToBreakEven, resp) == moveToBreakEven /\ resp = "fillNoTrade"

\* how the promise of one batch trade settles on its createOrder response
settle(moveToBreakEven, resp) ==
  IF resp = "error" \/ throwsOnTradeId(moveToBreakEven, resp)
    THEN "rejected" ELSE "fulfilled"

\* setInterval(async () => {...}, 1000) of the break-even watch of order o
newMonitor(o) ==
  LET p == orders[o].payload
  IN  [order |-> o, instrument |-> p.instrument, isLong |-> isLong(p.intent),
       entryPrice |-> entryPrice(p.intent, p.quote),
       breakEvenPips |-> p.intent.breakEvenPips,
       h |-> nextHandle, load |-> loads, modifyCalls |-> 0, cleared |-> 0]

spawnMonitor(o) ==
  /\ monitors' = Append(monitors, newMonitor(o))
  /\ timers' = timers \cup {armTimer("interval", Len(monitors) + 1)}
  /\ nextHandle' = nextHandle + 1

\* the continuation after `await api.createOrder(...)` of order o
orderResponse(o, resp) ==
  LET ord == orders[o]
      be  == ord.payload.intent.moveToBreakEven
  IN
  /\ ord.state = "sent" /\ ord.load = loads
  /\ orders' = [orders EXCEPT ![o].state = resp]
  /\ CASE ord.mode = "scheduledSingle" ->
            UNCHANGED <<timerVars, monitors, runs, busy, notice, formVars>>
       [] ord.mode = "single" ->
            /\ IF resp # "error" /\ startsMonitor(be, resp)
                 THEN spawnMonitor(o)
                 ELSE UNCHANGED <<timerVars, monitors>>
            /\ busy' = IF ord.mounted THEN FALSE ELSE busy
            /\ notice' = IF ord.mounted
                           THEN [notice EXCEPT !["trade"] =
                                   IF resp = "error" \/ throwsOnTradeId(be, resp)
                                     THEN "failed" ELSE "placed"]
                           ELSE notice
            /\ IF ord.mounted /\ resp # "error" /\ ~throwsOnTradeId(be, resp)
                 THEN resetForm ELSE UNCHANGED formVars
            /\ UNCHANGED runs
       [] ord.mode = "batch" ->
            LET out == [runs[ord.run].outcome EXCEPT ![ord.idx] = settle(be, resp)]
            IN  /\ IF resp # "error" /\ startsMonitor(be, resp)
                     THEN spawnMonitor(o)
                     ELSE UNCHANGED <<timerVars, monitors>>
                /\ runs' = [runs EXCEPT ![ord.run].outcome = out,
                                        ![ord.run].report = report(out)]
                /\ busy' = IF ord.mounted /\ report(out).done THEN FALSE ELSE busy
                /\ notice' = IF ord.mounted
                               THEN [notice EXCEPT !["batch"] =
                                       reportNotice(report(out), @)]
                               ELSE notice
                /\ UNCHANGED formVars
  /\ UNCHANGED <<clockVars, storage, tasks, polls, rows>>

\* -------------------------------------------------- break-even monitoring
\* quotes a poll can see: the entry quotes, one far enough on each side, and
\* one on each side whose bid and ask lie on different sides of the threshold
PollQuotes == Quotes \cup {[bid |-> 110170, ask |-> 110185],
                           [bid |-> 109830, ask |-> 109845],
                           [bid |-> 110155, ask |-> 110170],
                           [bid |-> 109845, ask |-> 109860]}

\* what api.getCurrentPrices can come back with inside a poll
PollResults ==
  {[kind |-> "error", quote |-> NoQuote], [kind |-> "empty", quote |-> NoQuote]}
    \cup {[kind |-> "quote", quote |-> q] : q \in PollQuotes}

\* profitPips >= breakEvenPips, with profitPips = (price - entry) / pipValue
\* from the bid for a long trade and (entry - price) / pipValue from the ask
\* for a short one
reachedBreakEven(m, q) ==
  IF m.isLong THEN q.bid - m.entryPrice >= m.breakEvenPips * PipPoints
              ELSE m.entryPrice - q.ask >= m.breakEvenPips * PipPoints

\* the interval of monitor m ticks: its async callback starts and awaits
\* api.getCurrentPrices
pollTick(m) ==
  /\ \E tm \in timers : tm.kind = "interval" /\ tm.ref = m
  /\ Len(polls) < MaxPolls
  /\ polls' = Append(polls, [monitor |-> m, load |-> loads, pc |-> "quote",
                             currentPrices |-> NoQuote, breakEvenPrice |-> 0])
  /\ UNCHANGED <<clockVars, timerVars, storage, tasks, orders, runs, monitors,
                 rows, busy, notice, formVars>>

\* the callback continues after `await api.getCurrentPrices(...)`; a poll
\* that ended in the catch block is left at "failed"; a poll that calls
\* api.modifyTrade keeps the quote it saw and the stop price it sent
pollQuote(p, res) ==
  LET m == polls[p].monitor
  IN
  /\ polls[p].pc = "quote" /\ polls[p].load = loads
  /\ CASE res.kind = "error" ->
            /\ timers' = clearTimer(timers, monitors[m].h)
            /\ monitors' = [monitors EXCEPT ![m].cleared = @ + 1]
            /\ polls' = [polls EXCEPT ![p].pc = "failed"]
       [] res.kind = "empty" ->
            /\ polls' = [polls EXCEPT ![p].pc = "done"]
            /\ UNCHANGED <<timers, monitors>>
       [] OTHER ->
            IF reachedBreakEven(monitors[m], res.quote)
              THEN /\ monitors' = [monitors EXCEPT ![m].modifyCalls = @ + 1]
                   /\ polls' = [polls EXCEPT
                                  ![p].pc = "modify",
                                  ![p].currentPrices = res.quote,
                                  ![p].breakEvenPrice = monitors[m].entryPrice]
                   /\ UNCHANGED timers
              ELSE /\ polls' = [polls EXCEPT ![p].pc = "done",
                                             ![p].currentPrices = res.quote]
                   /\ UNCHANGED <<timers, monitors>>
  /\ UNCHANGED <<clockVars, nextHandle, storage, tasks, orders, runs, rows,
                 busy, notice, formVars>>

\* the callback continues after `await api.modifyTrade(...)`: clearInterval
\* on success, and in the catch block on failure
pollModify(p, ok) ==
  LET m == polls[p].monitor
  IN
  /\ polls[p].pc = "modify" /\ polls[p].load = loads
  /\ timers' = clearTimer(timers, monitors[m].h)
  /\ monitors' = [monitors EXCEPT ![m].cleared = @ + 1]
  /\ polls' = [polls EXCEPT ![p].pc = IF ok THEN "done" ELSE "failed"]
  /\ UNCHANGED <<clockVars, nextHandle, storage, tasks, orders, runs, rows,
                 busy, notice, formVars>>

\* ---------------------------------------------------- the Scheduled view
\* one table row: the stored record under its key, and the status computed
\* when the row was rendered (isPending = scheduledTime > now)
renderRow(e, t) ==
  [key |-> e.key, timeoutId |-> e.timeoutId, scheduledTime |-> e.scheduledTime,
   task |-> e.task, isPending |-> e.scheduledTime > t]

\* a row whose record has no `trades` field makes the render read
\* trade.trades.direction of undefined
renderThrows(st) == \E e \in st : e.field # "trades"

\* ScheduledTrades.loadScheduledTrades (on mount and every second) and the
\* render that follows setScheduledTrades
loadScheduledTrades ==
  /\ route = "scheduled" /\ ~crashed /\ credentials
  /\ IF renderThrows(storage)
       THEN /\ crashed' = TRUE
            /\ rows' = {}
            /\ orders' = unmount(orders)
       ELSE /\ rows' = {renderRow(e, now) : e \in storage}
            /\ UNCHANGED <<crashed, orders>>
  /\ UNCHANGED <<now, loads, route, timerVars, storage, tasks, runs, monitors,
                 polls, busy, notice, formVars>>

\* what happened to the task of a cancelled record, for the record
cancelKind(task, t) ==
  IF task.fired THEN "afterFire"
  ELSE IF t < task.fireAt THEN "early" ELSE "late"

\* ScheduledTrades.cancelTrade(trade), the confirm dialog answered with OK;
\* the Cancel button exists on rows rendered as Pending
cancelTrade(row) ==
  /\ route = "scheduled" /\ ~crashed /\ credentials
  /\ row \in rows /\ row.isPending
  /\ timers' = clearTimer(timers, row.timeoutId)
  /\ storage' = removeItem(storage, row.key)
  /\ rows' = {[r EXCEPT !.isPending = r.scheduledTime > now] :
                r \in {x \in rows : x.key # row.key}}
  /\ notice' = [notice EXCEPT !["scheduled"] = "cancelled"]
  /\ tasks' = [tasks EXCEPT ![row.task].cancel = cancelKind(tasks[row.task], now)]
  /\ UNCHANGED <<clockVars, nextHandle, brokerVars, busy, formVars>>

\* ------------------------------------------- the price poll of TradeEntry
\* the quote the price poll holds for an instrument (1.10000/1.10015 and
\* 150.000/150.015, in points of 0.00001)
Market(pair) ==
  CASE pair = "EUR_USD" -> [bid |-> 110000,   ask |-> 110015]
    [] pair = "GBP_USD" -> [bid |-> 127000,   ask |-> 127020]
    [] pair = "USD_JPY" -> [bid |-> 15000000, ask |-> 15001500]

\* the instrument <select>: setForm({...form, instrument}); the price effect
\* depends on form.instrument, so it clears its interval and fetches at once
\* for the new instrument; currentPrice and calculatedUnits stay as they are
setInstrument(pair) ==
  /\ route = "trade" /\ ~crashed /\ credentials
  /\ pair # selected
  /\ selected' = pair
  /\ fetches' = fetches \cup {pair}
  /\ UNCHANGED <<clockVars, timerVars, storage, tasks, brokerVars, rows, busy,
                 notice, credentials, shownPrice, batchForm>>

\* fetchCurrentPrice up to its await: on mount and on every tick of the
\* one-second interval, for the form.instrument of the render it closes over
fetchCurrentPrice ==
  /\ route = "trade" /\ ~crashed /\ credentials
  /\ selected \notin fetches
  /\ fetches' = fetches \cup {selected}
  /\ UNCHANGED <<clockVars, timerVars, storage, tasks, brokerVars, rows, busy,
                 notice, credentials, selected, shownPrice, batchForm>>

\* fetchCurrentPrice after `await api.getCurrentPrices(...)`: a response with
\* a price is stored by setCurrentPrice, whatever instrument the form shows
\* by then; an error or an empty response leaves currentPrice as it is
priceResponse(pair, ok) ==
  /\ pair \in fetches
  /\ fetches' = fetches \ {pair}
  /\ shownPrice' = IF ok THEN Market(pair) ELSE shownPrice
  /\ UNCHANGED <<clockVars, timerVars, storage, tasks, brokerVars, rows, busy,
                 notice, credentials, selected, batchForm>>

\* ------------------------------------------------------- specifications
\* the steps of the closures and rows that exist in the current state
FireTimer     == \E t \in 1..Len(tasks) : fireTimer(t)
SetInstrument == \E pair \in Instruments : setInstrument(pair)
PriceResponse == \E pair \in fetches, ok \in BOOLEAN : priceResponse(pair, ok)
CancelTrade   == \E row \in rows : cancelTrade(row)
OrderResponse == \E o \in 1..Len(orders), resp \in Responses : orderResponse(o, resp)
PollTick      == \E m \in 1..Len(monitors) : pollTick(m)
PollQuote     == \E p \in 1..Len(polls), res \in PollResults : pollQuote(p, res)
PollModify    == \E p \in 1..Len(polls), ok \in BOOLEAN : pollModify(p, ok)

\* The scheduler: schedule, fire, cancel, list and reload.  One intent, one
\* quote, every scheduled time.
SchedIntents == {i \in Intents : /\ i.instrument = "EUR_USD"
                                 /\ i.direction = "LONG"
                                 /\ ~i.moveToBreakEven}
SchedBatches == UNION {[1..n -> SchedIntents] : n \in 1..MaxBatch}
SchedQuotes  == {[bid |-> 110000, ask |-> 110015]}
SchedPrices  == {[i \in Instruments |-> q] : q \in SchedQuotes}

NextSched ==
  \/ Tick
  \/ \E r \in Routes : Navigate(r)
  \/ Reload
  \/ \E f \in SchedIntents, at \in 0..MaxTime, q \in SchedQuotes :
        handleSubmit(f, TRUE, at, q, TRUE)
  \/ \E tr \in SchedBatches, pr \in SchedPrices, at \in 0..MaxTime :
        handleExecuteTrades(tr, pr, TRUE, at, TRUE)
  \/ FireTimer
  \/ loadScheduledTrades
  \/ CancelTrade

SpecSched == Init /\ [][NextSched]_vars

\* The batch executor: immediate batches over every combination of intents
\* and of present and missing prices, and the broker's answers.
ExecIntents == {i \in Intents : i.direction = "LONG"}
ExecBatches == UNION {[1..n -> ExecIntents] : n \in 1..MaxBatch}
ExecPrices  == [Instruments -> SchedQuotes \cup {NoQuote}]

NextExec ==
  \/ \E r \in Routes : Navigate(r)
  \/ \E tr \in ExecBatches, pr \in ExecPrices :
        handleExecuteTrades(tr, pr, FALSE, 0, TRUE)
  \/ OrderResponse

SpecExec == Init /\ [][NextExec]_vars

\* The break-even monitor: immediate single trades that ask for break-even,
\* their fills, and the polls of the watches they start.
MonitorIntents == {i \in Intents : i.instrument = "EUR_USD" /\ i.moveToBreakEven}

NextMonitor ==
  \/ \E f \in MonitorIntents, q \in SchedQuotes : handleSubmit(f, FALSE, 0, q, TRUE)
  \/ OrderResponse
  \/ PollTick
  \/ PollQuote
  \/ PollModify

SpecMonitor == Init /\ [][NextMonitor]_vars

\* Deferred execution: schedules of single trades and one-intent batches with
\* and without break-even, with and without a price for the instrument, with
\* a store write that succeeds or throws, their firing and the broker's
\* answers.
FireIntents == {i \in Intents : i.instrument = "EUR_USD" /\ i.direction = "LONG"}
FireBatches == {<<i>> : i \in FireIntents}
FirePrices  == {[i \in Instruments |-> q] : q \in SchedQuotes \cup {NoQuote}}

NextFire ==
  \/ Tick
  \/ \E f \in FireIntents, at \in 0..MaxTime, q \in SchedQuotes, st \in BOOLEAN :
        handleSubmit(f, TRUE, at, q, st)
  \/ \E tr \in FireBatches, pr \in FirePrices, at \in 0..MaxTime, st \in BOOLEAN :
        handleExecuteTrades(tr, pr, TRUE, at, st)
  \/ FireTimer
  \/ OrderResponse

SpecFire == Init /\ [][NextFire]_vars

\* Order entry: both forms filled with valid and invalid risk amounts and
\* stop losses, submitted at once or for a later time; the single form long
\* and short, the batch rows short.
EntryRisks   == {-1, 0, 1}
EntryStops   == {-5, 0, 25}
EntryTimes   == {0, 1}
EntryIntents ==
  [instrument : {"EUR_USD"}, direction : Directions, riskAmount : EntryRisks,
   stopLoss : EntryStops, takeProfit : TakeProfits, moveToBreakEven : {FALSE},
   breakEvenPips : BreakEvenPips]
EntryBatchIntents == {i \in EntryIntents : i.direction = "SHORT"}
EntryBatches == UNION {[1..n -> EntryBatchIntents] : n \in 1..MaxBatch}

NextEntry ==
  \/ \E f \in EntryIntents, sch \in BOOLEAN, at \in EntryTimes, q \in Quotes :
        handleSubmit(f, sch, at, q, TRUE)
  \/ \E tr \in EntryBatches, pr \in SchedPrices, sch \in BOOLEAN, at \in EntryTimes :
        handleExecuteTrades(tr, pr, sch, at, TRUE)

SpecEntry == Init /\ [][NextEntry]_vars

\* Sizing at the edge: immediate trades of both forms whose risk is small
\* against the stop distance, and the broker's answers.
SizingIntents ==
  [instrument : {"EUR_USD"}, direction : Directions, riskAmount : {1},
   stopLoss : {25, 20000}, takeProfit : TakeProfits, moveToBreakEven : {FALSE},
   breakEvenPips : BreakEvenPips]
SizingBatches == UNION {[1..n -> SizingIntents] : n \in 1..MaxBatch}

NextSizing ==
  \/ \E f \in SizingIntents, q \in Quotes : handleSubmit(f, FALSE, 0, q, TRUE)
  \/ \E tr \in SizingBatches, pr \in SchedPrices :
        handleExecuteTrades(tr, pr, FALSE, 0, TRUE)
  \/ OrderResponse

SpecSizing == Init /\ [][NextSizing]_vars

\* The pairs on offer: TRADING_PAIRS holds dollar-quoted pairs and USD_JPY.
\* Immediate single trades and one-intent batches on one pair of each kind,
\* their fills and the polls of their break-even watches; every quote is a
\* quote of the instrument it is asked for.
PairInstruments == {"EUR_USD", "USD_JPY"}

\* quotes a later poll can see for it: unchanged, or moved up or down by
\* 0.00170 on EUR_USD and by 0.020 on USD_JPY
MarketMoves(pair) ==
  LET q == Market(pair)
      d == IF pair = "USD_JPY" THEN 2000 ELSE 170
  IN  {q, [bid |-> q.bid + d, ask |-> q.ask + d],
          [bid |-> q.bid - d, ask |-> q.ask - d]}

PairIntents ==
  [instrument : PairInstruments, direction : Directions,
   riskAmount : RiskAmounts, stopLoss : StopLosses, takeProfit : TakeProfits,
   moveToBreakEven : {TRUE}, breakEvenPips : BreakEvenPips]

PairPrices == [i \in PairInstruments |-> Market(i)]

PairPollResults(pair) ==
  {[kind |-> "error", quote |-> NoQuote]}
    \cup {[kind |-> "quote", quote |-> q] : q \in MarketMoves(pair)}

PairPollQuote ==
  \E p \in 1..Len(polls) :
    \E res \in PairPollResults(monitors[polls[p].monitor].instrument) :
      pollQuote(p, res)

NextPairs ==
  \/ \E f \in PairIntents : handleSubmit(f, FALSE, 0, Market(f.instrument), TRUE)
  \/ \E f \in PairIntents : handleExecuteTrades(<<f>>, PairPrices, FALSE, 0, TRUE)
  \/ OrderResponse
  \/ PollTick
  \/ PairPollQuote
  \/ PollModify

SpecPairs == Init /\ [][NextPairs]_vars

\* The single-trade form and its price poll: the instrument is changed, the
\* poll fetches, responses arrive in any order, and the form is submitted
\* with the instrument it shows and the price it holds.
QuoteIntents == {i \in Intents : i.direction = "LONG" /\ ~i.moveToBreakEven}

\* the submit button of the form as it is rendered now
SubmitForm ==
  /\ shownPrice # NoQuote
  /\ \E f \in QuoteIntents :
       f.instrument = selected /\ handleSubmit(f, FALSE, 0, shownPrice, TRUE)

NextQuote ==
  \/ SetInstrument
  \/ fetchCurrentPrice
  \/ PriceResponse
  \/ SubmitForm
  \/ OrderResponse

SpecQuote == Init /\ [][NextQuote]_vars

\* Logging out: single trades are scheduled or placed with break-even, the
\* user logs out, and the timers and watches that exist go on.
LogoutIntents == {i \in Intents : i.instrument = "EUR_USD" /\ i.direction = "LONG"}

\* every order is filled and opens a trade
LogoutResponse == \E o \in 1..Len(orders) : orderResponse(o, "fillOpened")

\* every poll sees the market moved up
LogoutPollQuote ==
  \E p \in 1..Len(polls) :
    pollQuote(p, [kind |-> "quote",
                  quote |-> [bid |-> 110170, ask |-> 110185]])

\* a trade with break-even is placed at once, one without is scheduled
NextLogout ==
  \/ Tick
  \/ \E f \in LogoutIntents :
        handleSubmit(f, ~f.moveToBreakEven, MaxTime, Market(f.instrument), TRUE)
  \/ handleLogout
  \/ FireTimer
  \/ LogoutResponse
  \/ PollTick
  \/ LogoutPollQuote
  \/ PollModify

SpecLogout == Init /\ [][NextLogout]_vars

\* Editing after scheduling: the batch form is edited, emptied and remounted
\* between the moment a batch is scheduled from it and the moment it fires;
\* single trades are scheduled from the fields of the single form.
FreezeTrades ==
  {[initialTrades[1] EXCEPT !.riskAmount = 2],
   [initialTrades[1] EXCEPT !.instrument = "GBP_USD", !.direction = "SHORT"]}

ExecuteForm ==
  \E pr \in SchedPrices :
    handleExecuteTrades(batchForm, pr, TRUE, MaxTime, TRUE)

NextFreeze ==
  \/ Tick
  \/ \E r \in {"trade", "batch"} : Navigate(r)
  \/ \E index \in 1..MaxBatch, tr \in FreezeTrades : handleTradeChange(index, tr)
  \/ \E index \in 1..MaxBatch : handleDeleteTrade(index)
  \/ ExecuteForm
  \/ \E f \in SchedIntents :
        handleSubmit(f, TRUE, MaxTime, Market(f.instrument), TRUE)
  \/ FireTimer

SpecFreeze == Init /\ [][NextFreeze]_vars

\* ---------------------------------------------------------------- claims
taskIds == 1..Len(tasks)
armed(t) == \E tm \in timers : tm.kind = "timeout" /\ tm.ref = t /\ tm.load = loads
stamp(key) == key[2]

\* C1: a task whose record was cancelled strictly before its fireAt, while it
\* had not fired, has never had its callback run since: it is not fired and
\* no createOrder call carries it.
C1_CancelledNeverExecutes ==
  \A t \in taskIds :
     tasks[t].cancel = "early" =>
        /\ ~tasks[t].fired
        /\ \A o \in 1..Len(orders) : orders[o].task # t

\* a task cancelled early whose fireAt has since come, with its page alive
C1_Witness ==
  \E t \in taskIds :
     /\ tasks[t].cancel = "early"
     /\ now >= tasks[t].fireAt
     /\ tasks[t].load = loads

\* C2: every break-even monitor has called modifyTrade at most once.
C2_ModifyAtMostOnce ==
  \A m \in 1..Len(monitors) : monitors[m].modifyCalls <= 1

\* C3: a finished batch of N intents of which M failed (no price for the
\* instrument, or createOrder threw) reports N - M successes and M failures.
noPrice(r) ==
  {i \in 1..Len(runs[r].trades) :
     runs[r].prices[runs[r].trades[i].instrument] = NoQuote}
brokerError(r) ==
  {o \in 1..Len(orders) : orders[o].run = r /\ orders[o].state = "error"}
failedIntents(r) == Cardinality(noPrice(r)) + Cardinality(brokerError(r))

C3_BatchCountsExact ==
  \A r \in 1..Len(runs) :
     runs[r].report.done =>
        /\ runs[r].report.failed = failedIntents(r)
        /\ runs[r].report.successful = Len(runs[r].trades) - failedIntents(r)

\* C4: in every batch execution, each intent whose instrument has a price has
\* its order submitted, whatever happens to the other intents.
C4_OthersProceed ==
  \A r \in 1..Len(runs) :
     \A i \in 1..Len(runs[r].trades) :
        runs[r].prices[runs[r].trades[i].instrument] # NoQuote =>
           \E o \in 1..Len(orders) :
              /\ orders[o].run = r /\ orders[o].idx = i
              /\ orders[o].payload.intent = runs[r].trades[i]

\* a batch in which the first intent has no price and the second was
\* submitted, and one in which the first order was refused by the broker
C4_Witness ==
  \E r \in 1..Len(runs) :
     /\ Len(runs[r].trades) = 2
     /\ 1 \in noPrice(r) /\ 2 \notin noPrice(r)
     /\ \E o \in 1..Len(orders) : orders[o].run = r /\ orders[o].idx = 2

\* C5: the unit magnitude of every submitted order is
\* floor(riskAmount / (stopLossPips + spreadPips) / 10 * 100000) with
\* spreadPips = (ask - bid) / pipSize.
unitsWithSpread(riskAmount, stopLoss, q) ==
  (riskAmount * 1000000) \div (stopLoss * 10 + (q.ask - q.bid))

magnitude(n) == IF n < 0 THEN -n ELSE n

futureOnly ==
  /\ \A t \in taskIds : tasks[t].fireAt > stamp(tasks[t].key)
  /\ \A e \in storage : e.scheduledTime > stamp(e.key)
  /\ \A tm \in timers :
        tm.kind = "timeout" =>
           tm.ref \in taskIds /\ tasks[tm.ref].fireAt > stamp(tasks[tm.ref].key)

C6_RejectedLeavesNothing ==
  /\ []futureOnly
  /\ [][\A r \in Routes :
          (notice'[r] = "SchedulingError" /\ notice[r] # "SchedulingError")
             => UNCHANGED <<timers, nextHandle, storage, tasks>>]_vars

\* a schedule was refused with the scheduling error, nothing armed or stored
C6_Witness ==
  /\ \E r \in Routes : notice[r] = "SchedulingError"
  /\ now > 0
  /\ timers = {} /\ storage = {} /\ tasks = <<>>

\* C7: every stored record of a task that has not fired has a live timer, so
\* a pending task is still going to fire after a reload.
C7_PendingSurvivesReload ==
  \A e \in storage : ~tasks[e.task].fired => armed(e.task)

\* C8: once a task has fired, the store holds no record of it.
C8_FiredRecordDeleted ==
  \A e \in storage : ~tasks[e.task].fired

\* C9: a cancel of a task that has already fired changes nothing in the
\* store and reports no success.
C9_CancelOfFiredIsNoOp ==
  [][\A t \in taskIds :
        (/\ tasks[t].fired
         /\ Len(tasks') = Len(tasks)
         /\ tasks'[t].cancel # tasks[t].cancel)
        => (storage' = storage /\ notice'["scheduled"] # "cancelled")]_vars

\* C10: for no task have both the fire and a cancel succeeded.
C10_FireXorCancel ==
  \A t \in taskIds : ~(tasks[t].fired /\ tasks[t].cancel # "none")

\* C11: once a poll of a monitor has ended in an error (of the quote request
\* or of modifyTrade), that monitor starts no further poll and calls
\* modifyTrade no more.
errorObserved(m) ==
  \E p \in 1..Len(polls) : polls[p].monitor = m /\ polls[p].pc = "failed"

C11_AbortedStops ==
  [][\A m \in 1..Len(monitors) :
        errorObserved(m) =>
           /\ monitors'[m].modifyCalls = monitors[m].modifyCalls
           /\ \A p \in (Len(polls) + 1)..Len(polls') : polls'[p].monitor # m]_vars

\* C12: every filled order that opened a trade and whose intent carries
\* moveToBreakEven has a break-even watch, whichever path submitted it.
C12_WatchOnEveryPath ==
  \A o \in 1..Len(orders) :
     (orders[o].state = "fillOpened" /\ orders[o].payload.intent.moveToBreakEven)
        => \E m \in 1..Len(monitors) : monitors[m].order = o

\* C17: the reported result of a finished batch determines the failure reason
\* of each failed intent: two executions of the same trades with the same
\* reported result have the same reason for every failed intent.
failureReason(r, i) ==
  IF i \in noPrice(r) THEN "no price data"
  ELSE LET o == CHOOSE x \in 1..Len(orders) :
                   orders[x].run = r /\ orders[x].idx = i
       IN  IF orders[o].state = "error" THEN "createOrder failed"
                                        ELSE "tradeOpened missing"

failureReasons(r) ==
  [i \in {j \in 1..Len(runs[r].outcome) : runs[r].outcome[j] = "rejected"} |->
     failureReason(r, i)]

C17_ReasonsReported ==
  \A r1, r2 \in 1..Len(runs) :
     (/\ runs[r1].report.done /\ runs[r2].report.done
      /\ runs[r1].trades = runs[r2].trades
      /\ runs[r1].report = runs[r2].report)
        => failureReasons(r1) = failureReasons(r2)

\* C19: every armed timer of a task has the task's record in the store.
C19_PersistBeforeArm ==
  \A t \in taskIds : armed(t) => \E e \in storage : e.task = t

\* C20: every order submitted by a fired task was built from a quote obtained
\* at the instant it was submitted.
C20_QuotedAtFireTime ==
  \A o \in 1..Len(orders) :
     orders[o].task # 0 => orders[o].quotedAt = orders[o].sentAt

\* C18: an intent of a batch whose order the broker has answered is counted
\* as a success exactly when the answer is a fill.
isFill(resp) == resp \in {"fillOpened", "fillNoTrade"}

C18_SuccessIffFill ==
  \A o \in 1..Len(orders) :
     (orders[o].mode = "batch" /\ orders[o].state # "sent") =>
        (runs[orders[o].run].outcome[orders[o].idx] = "fulfilled"
           <=> isFill(orders[o].state))

\* C13: no order was submitted, no timer armed and no record stored for an
\* intent whose riskAmount or stopLoss is not positive, from either form.
nonPositive(intent) == intent.riskAmount <= 0 \/ intent.stopLoss <= 0

intentsOf(task) ==
  IF task.kind = "single" THEN {task.order.intent}
  ELSE {task.trades[i] : i \in 1..Len(task.trades)}

C13_InvalidRejected ==
  /\ \A o \in 1..Len(orders) : ~nonPositive(orders[o].payload.intent)
  /\ \A t \in taskIds : \A i \in intentsOf(tasks[t]) : ~nonPositive(i)
  /\ \A tm \in timers : tm.kind = "timeout" => tm.ref \in taskIds
  /\ \A e \in storage : \A i \in 1..Len(e.payload) : ~nonPositive(e.payload[i])

\* a form with a non-positive value was refused and nothing exists
C13_Witness ==
  /\ notice["batch"] = "invalid" \/ notice["trade"] = "invalidField"
  /\ orders = <<>> /\ timers = {} /\ storage = {} /\ tasks = <<>>

\* C14: the units of every order submitted or scheduled are non-negative for
\* a long intent and non-positive for a short one.
payloads ==
  {orders[o].payload : o \in 1..Len(orders)}
    \cup {tasks[t].order : t \in {x \in taskIds : tasks[x].kind = "single"}}

signMatches(p) == IF isLong(p.intent) THEN p.units >= 0 ELSE p.units <= 0

C14_SignMatchesDirection == \A p \in payloads : signMatches(p)

\* a short order submitted with negative units
C14_Witness ==
  \E o \in 1..Len(orders) :
     ~isLong(orders[o].payload.intent) /\ orders[o].payload.units < 0

\* C15: no order with units = 0 is sent to the broker.
C15_NoZeroUnits == \A o \in 1..Len(orders) : orders[o].payload.units # 0

\* C16: for the risk amount and stop loss of every sized single trade, the
\* size is the one the sizing gives at the trade's quote, and the size at any
\* quote with a wider spread is no larger.
spreadOf(q) == q.ask - q.bid

singlePayloads ==
  {orders[o].payload : o \in {x \in 1..Len(orders) : orders[x].mode # "batch"}}
    \cup {tasks[t].order : t \in {x \in taskIds : tasks[x].kind = "single"}}

C16_MonotoneInSpread ==
  \A p \in singlePayloads : \A q \in Quotes :
     LET size == calculatePositionSize(p.intent.riskAmount, p.intent.stopLoss, q)
     IN  /\ q = p.quote => size = magnitude(p.units)
         /\ spreadOf(q) > spreadOf(p.quote) => size <= magnitude(p.units)

\* a trade sized at the tighter quote, strictly larger than at the wider one
C16_Witness ==
  \E p \in singlePayloads : \E q \in Quotes :
     /\ spreadOf(q) > spreadOf(p.quote)
     /\ calculatePositionSize(p.intent.riskAmount, p.intent.stopLoss, q)
           < magnitude(p.units)

\* C21: a poll of a break-even watch has called modifyTrade only if the
\* profit it measured had reached the watch's threshold in pips of the
\* instrument - from the entry price up to the current bid for a long trade,
\* from the current ask down to the entry price for a short one - and the
\* stop it sent is the entry price of the order the watch belongs to.
pipSize(pair) == IF pair = "USD_JPY" THEN 1000 ELSE 10

openedAt(o) ==
  IF o.payload.intent.direction = "LONG"
    THEN o.payload.quote.ask ELSE o.payload.quote.bid

profitPoints(o, q) ==
  IF o.payload.intent.direction = "LONG"
    THEN q.bid - openedAt(o) ELSE openedAt(o) - q.ask

calledModify(p) == p.breakEvenPrice # 0

C21_BreakEvenAtThreshold ==
  \A i \in 1..Len(polls) :
    calledModify(polls[i]) =>
      LET o == orders[monitors[polls[i].monitor].order]
      IN  /\ polls[i].currentPrices # NoQuote
          /\ profitPoints(o, polls[i].currentPrices)
                >= o.payload.intent.breakEvenPips * pipSize(o.payload.instrument)
          /\ polls[i].breakEvenPrice = openedAt(o)

\* C22: every order built from positive stop and target pips is entered at
\* the ask when long and at the bid when short, has its stop below and its
\* target above the entry when long and the reverse when short, and has them
\* at stopLoss and takeProfit pips of the instrument from the entry.
C22_BracketSides ==
  \A i \in 1..Len(orders) :
    LET o == orders[i]
        p == o.payload
        u == pipSize(p.instrument)
    IN  (p.intent.stopLoss > 0 /\ p.intent.takeProfit > 0) =>
          IF p.intent.direction = "LONG"
            THEN /\ p.stopLossPrice < openedAt(o)
                 /\ openedAt(o) < p.takeProfitPrice
                 /\ openedAt(o) - p.stopLossPrice = p.intent.stopLoss * u
                 /\ p.takeProfitPrice - openedAt(o) = p.intent.takeProfit * u
            ELSE /\ p.takeProfitPrice < openedAt(o)
                 /\ openedAt(o) < p.stopLossPrice
                 /\ p.stopLossPrice - openedAt(o) = p.intent.stopLoss * u
                 /\ openedAt(o) - p.takeProfitPrice = p.intent.takeProfit * u

\* C23: two schedule operations never produce the same store key, and the
\* record under the key of a task whose timer is still armed is the record
\* that task wrote, never one a later schedule put in its place.
C23_UniqueTaskIds ==
  /\ \A t1, t2 \in taskIds : t1 # t2 => tasks[t1].key # tasks[t2].key
  /\ \A t \in taskIds :
       armed(t) => \A e \in storage : e.key = tasks[t].key => e.task = t

\* C24: every armed timer of a scheduled task has exactly one record in the
\* store that holds its handle, so the Scheduled view can cancel it.
recordsOf(t) ==
  {e \in storage : e.task = t /\ e.timeoutId = tasks[t].h}

C24_ArmedHasOneRecord ==
  \A t \in taskIds : armed(t) => Cardinality(recordsOf(t)) = 1

\* C25: a row of the Scheduled view whose status is up to date with the
\* clock tells the truth: shown as Executed, the timer of its task has run
\* or is armed and due; shown as Pending, the timer of its task is armed.
upToDate(row) == row.isPending = (row.scheduledTime > now)

C25_StatusIsTrue ==
  \A row \in rows :
    upToDate(row) =>
      /\ row.isPending => armed(row.task)
      /\ ~row.isPending => (tasks[row.task].fired \/ armed(row.task))

\* C26: a cancellation from the Scheduled view clears no timer but the
\* timeout of the task whose record was cancelled.
C26_CancelClearsOwnTimer ==
  [][\A t \in taskIds :
       tasks'[t].cancel # tasks[t].cancel =>
         \A tm \in timers \ timers' : tm.kind = "timeout" /\ tm.ref = t]_vars

\* C29: every record a schedule wrote carries its payload under the field
\* the Scheduled view reads (trades), and listing the records never fails.
C29_RecordsReadable ==
  /\ \A e \in storage : e.field = "trades"
  /\ ~crashed

\* C27: every order of the single-trade form was built from a quote of its
\* own instrument.
C27_QuoteOfOwnInstrument ==
  \A i \in 1..Len(orders) :
    orders[i].mode = "single" =>
      orders[i].payload.quote = Market(orders[i].payload.instrument)

\* C28: once the credentials are cleared no broker call is made: no order
\* is submitted, no break-even poll fetches a quote, no stop is modified.
C28_NoCallsAfterLogout ==
  [][~credentials =>
       /\ Len(orders') = Len(orders)
       /\ Len(polls') = Len(polls)
       /\ \A m \in 1..Len(monitors) :
            monitors'[m].modifyCalls = monitors[m].modifyCalls]_vars

\* C30: what a scheduled task executes is what it persisted when it was
\* scheduled: every order it sent carries the intent stored at its position
\* in the task's record, and once it has fired it has sent an order for each
\* stored intent that had a price - whatever the form holds by then.
sentBy(t) == {i \in 1..Len(orders) : orders[i].task = t}

persistedBy(t) == {e \in storage : e.task = t}

C30_PayloadFrozen ==
  \A t \in taskIds : \A e \in persistedBy(t) :
    /\ \A i \in sentBy(t) :
         /\ orders[i].idx \in 1..Len(e.payload)
         /\ orders[i].payload.intent = e.payload[orders[i].idx]
    /\ tasks[t].fired =>
         {orders[i].idx : i \in sentBy(t)} =
           IF tasks[t].kind = "batch"
             THEN quoted(e.payload, tasks[t].prices)
             ELSE {1}

\* a batch has fired and sent its orders after the form it was scheduled
\* from was changed
C30_Witness ==
  \E t \in taskIds : \E e \in persistedBy(t) :
    /\ tasks[t].kind = "batch" /\ tasks[t].fired
    /\ sentBy(t) # {}
    /\ batchForm # e.payload

====
